---- MODULE Spec2Model ----
(***************************************************************************)
(* The request layer of the study assistant (services/aiService):          *)
(* withRetry, the candidate-model fallback loop of sendMessage,            *)
(* generateQuiz and generateFlashcards, and the errors they surface.       *)
(*                                                                         *)
(* Texts are sequences of one-character strings, so that                   *)
(* String.prototype.includes, concatenation, replace and trim are computed *)
(* on the characters the way the code computes them.                       *)
(***************************************************************************)
EXTENDS Integers, Sequences, FiniteSets, TLC

\* ---------------------------------------------------------------- texts

\* "quota"
QUOTA ==
  <<"q","u","o","t","a">>

\* "fetch"
FETCH ==
  <<"f","e","t","c","h">>

\* "404"
T404 ==
  <<"4","0","4">>

\* "429"
T429 ==
  <<"4","2","9">>

\* "not found"
NOT_FOUND ==
  <<"n","o","t"," ","f","o","u","n","d">>

\* "Quota"
UC_QUOTA ==
  <<"Q","u","o","t","a">>

\* "Gemini API Key is missing. Please add VITE_GEMINI_API_KEY to your environment variables."
MSG_KEY_MISSING ==
  <<"G","e","m","i","n","i"," ","A","P","I"," ","K","e","y"," ","i","s"," ","m","i","s","s",
  "i","n","g","."," ","P","l","e","a","s","e"," ","a","d","d"," ","V","I","T","E","_","G",
  "E","M","I","N","I","_","A","P","I","_","K","E","Y"," ","t","o"," ","y","o","u","r"," ",
  "e","n","v","i","r","o","n","m","e","n","t"," ","v","a","r","i","a","b","l","e","s",".">>

\* "API Quota Exceeded across all available models. Please check your Google AI Studio billing or wait a few minutes."
MSG_QUOTA ==
  <<"A","P","I"," ","Q","u","o","t","a"," ","E","x","c","e","e","d","e","d"," ","a","c","r",
  "o","s","s"," ","a","l","l"," ","a","v","a","i","l","a","b","l","e"," ","m","o","d","e",
  "l","s","."," ","P","l","e","a","s","e"," ","c","h","e","c","k"," ","y","o","u","r"," ",
  "G","o","o","g","l","e"," ","A","I"," ","S","t","u","d","i","o"," ","b","i","l","l","i",
  "n","g"," ","o","r"," ","w","a","i","t"," ","a"," ","f","e","w"," ","m","i","n","u","t",
  "e","s",".">>

\* "Gemini models not found for this API key. Please verify your key in Google AI Studio."
MSG_NOT_FOUND ==
  <<"G","e","m","i","n","i"," ","m","o","d","e","l","s"," ","n","o","t"," ","f","o","u","n",
  "d"," ","f","o","r"," ","t","h","i","s"," ","A","P","I"," ","k","e","y","."," ","P","l",
  "e","a","s","e"," ","v","e","r","i","f","y"," ","y","o","u","r"," ","k","e","y"," ","i",
  "n"," ","G","o","o","g","l","e"," ","A","I"," ","S","t","u","d","i","o",".">>

\* "Failed to get AI response after trying multiple models. "
MSG_CHAT_FAILED ==
  <<"F","a","i","l","e","d"," ","t","o"," ","g","e","t"," ","A","I"," ","r","e","s","p","o",
  "n","s","e"," ","a","f","t","e","r"," ","t","r","y","i","n","g"," ","m","u","l","t","i",
  "p","l","e"," ","m","o","d","e","l","s","."," ">>

\* "Please check your connection."
MSG_CHECK_CONNECTION ==
  <<"P","l","e","a","s","e"," ","c","h","e","c","k"," ","y","o","u","r"," ","c","o","n","n",
  "e","c","t","i","o","n",".">>

\* "Failed to generate quiz after trying multiple models. "
MSG_QUIZ_FAILED ==
  <<"F","a","i","l","e","d"," ","t","o"," ","g","e","n","e","r","a","t","e"," ","q","u","i",
  "z"," ","a","f","t","e","r"," ","t","r","y","i","n","g"," ","m","u","l","t","i","p","l",
  "e"," ","m","o","d","e","l","s","."," ">>

\* "Failed to generate flashcards after trying multiple models. "
MSG_FLASH_FAILED ==
  <<"F","a","i","l","e","d"," ","t","o"," ","g","e","n","e","r","a","t","e"," ","f","l","a",
  "s","h","c","a","r","d","s"," ","a","f","t","e","r"," ","t","r","y","i","n","g"," ","m",
  "u","l","t","i","p","l","e"," ","m","o","d","e","l","s","."," ">>

\* "Too Many Requests"
M_TOO_MANY ==
  <<"T","o","o"," ","M","a","n","y"," ","R","e","q","u","e","s","t","s">>

\* "quota exceeded"
M_QUOTA ==
  <<"q","u","o","t","a"," ","e","x","c","e","e","d","e","d">>

\* "Service Unavailable"
M_UNAVAILABLE ==
  <<"S","e","r","v","i","c","e"," ","U","n","a","v","a","i","l","a","b","l","e">>

\* "Failed to fetch"
M_FETCH ==
  <<"F","a","i","l","e","d"," ","t","o"," ","f","e","t","c","h">>

\* "rate limited"
M_RATE ==
  <<"r","a","t","e"," ","l","i","m","i","t","e","d">>

\* "model not found"
M_NOT_FOUND ==
  <<"m","o","d","e","l"," ","n","o","t"," ","f","o","u","n","d">>

\* "[404] no such model"
M_404 ==
  <<"[","4","0","4","]"," ","n","o"," ","s","u","c","h"," ","m","o","d","e","l">>

\* "Error fetching: [404 Not Found]"
M_404_FETCH ==
  <<"E","r","r","o","r"," ","f","e","t","c","h","i","n","g",":"," ","[","4","0","4"," ","N",
  "o","t"," ","F","o","u","n","d","]">>

\* "Bad Request"
M_BAD ==
  <<"B","a","d"," ","R","e","q","u","e","s","t">>

\* "Quota exceeded"
M_UC_QUOTA ==
  <<"Q","u","o","t","a"," ","e","x","c","e","e","d","e","d">>

\* "Unexpected token"
M_SYNTAX ==
  <<"U","n","e","x","p","e","c","t","e","d"," ","t","o","k","e","n">>


\* ---------------------------------------------------------------- bounds

\* Longest transcript handed to sendMessage.
MaxHistory == 2

\* Longest body of a fenced response.
MaxBody == 3

\* ------------------------------------------------------- text operations

\* String.prototype.includes: sub occurs in s as a contiguous run.
Includes(s, sub) ==
  \E k \in 0..(Len(s) - Len(sub)) : SubSeq(s, k + 1, k + Len(sub)) = sub

\* s starts with pre at position k (1-based).
StartsAt(s, k, pre) ==
  /\ k + Len(pre) - 1 <= Len(s)
  /\ SubSeq(s, k, k + Len(pre) - 1) = pre

\* The backquote character, which a TLA+ string cannot hold.
BQ ==
  "BQ"

\* The two alternatives of the regular expression: a fence followed by json,
\* and a bare fence (three backquotes).
FENCE_JSON ==
  <<BQ,BQ,BQ,"j","s","o","n">>

FENCE ==
  <<BQ,BQ,BQ>>

RECURSIVE StripFrom(_, _)
\* text.replace(fence-json | fence, globally, "") from position k on: at each
\* position the first alternative that matches is removed, left to right.
StripFrom(s, k) ==
  IF k > Len(s) THEN <<>>
  ELSE IF StartsAt(s, k, FENCE_JSON) THEN StripFrom(s, k + Len(FENCE_JSON))
  ELSE IF StartsAt(s, k, FENCE) THEN StripFrom(s, k + Len(FENCE))
  ELSE <<s[k]>> \o StripFrom(s, k + 1)

StripFences(s) ==
  StripFrom(s, 1)

IsSpace(c) ==
  c \in {" ", "\n", "\t", "\r"}

\* String.prototype.trim.
Trim(s) ==
  LET keep == {k \in 1..Len(s) : ~IsSpace(s[k])}
  IN  IF keep = {} THEN <<>>
      ELSE LET lo == CHOOSE k \in keep : \A j \in keep : k <= j
               hi == CHOOSE k \in keep : \A j \in keep : k >= j
           IN  SubSeq(s, lo, hi)

\* --------------------------------------------------------------- failures

\* An absent status (undefined): falsy, and equal to no status code.
NoStatus == 0

\* A thrown value: error.status, error.response.status, error.message.
Err(st, rst, msg) ==
  [name |-> "Error", status |-> st, respStatus |-> rst, message |-> msg]

\* new Error(msg): a message and no status.
NewError(msg) ==
  Err(NoStatus, NoStatus, msg)

\* The value of a variable that was never assigned (let lastError: any).
Undefined ==
  [name |-> "undefined", status |-> NoStatus, respStatus |-> NoStatus, message |-> <<>>]

\* A promise that has not settled: its kind comes first and tells a reply
\* from a failure.
NoOutcome ==
  [kind |-> "none", value |-> Undefined]

NotSettled ==
  [kind |-> "none", value |-> Undefined, attempt |-> 0]

\* What JSON.parse throws on a text that is no JSON document.
SyntaxError ==
  [name |-> "SyntaxError", status |-> NoStatus, respStatus |-> NoStatus,
   message |-> M_SYNTAX]

\* The failures the upstream client can raise from one network call.
Failures ==
  { Err(429, NoStatus, M_TOO_MANY),
    Err(NoStatus, NoStatus, M_QUOTA),
    Err(503, NoStatus, M_UNAVAILABLE),
    Err(NoStatus, NoStatus, M_FETCH),
    Err(NoStatus, 429, M_RATE),
    Err(404, NoStatus, M_404_FETCH),
    Err(404, NoStatus, M_NOT_FOUND),
    Err(404, 429, M_NOT_FOUND),
    Err(NoStatus, NoStatus, M_404),
    Err(400, NoStatus, M_BAD),
    Err(500, NoStatus, M_UC_QUOTA),
    Err(500, NoStatus, <<>>) }

\* ------------------------------------------------------------- responses

\* "{}"
R_JSON ==
  <<"{","}">>

\* "{}" between an opening json fence and a closing fence, each on its own line
R_FENCED ==
  FENCE_JSON \o <<"\n">> \o R_JSON \o <<"\n">> \o FENCE

\* "Sorry"
R_PROSE ==
  <<"S","o","r","r","y">>

\* The texts response.text() can return.
Responses ==
  {R_JSON, R_FENCED, R_PROSE}

\* JSON.parse on the texts above: the empty object for "{}", a SyntaxError
\* for a text that is no JSON document.
JSONParse(text) ==
  IF text = R_JSON THEN [ok |-> TRUE, value |-> "{}"]
  ELSE [ok |-> FALSE, value |-> "SyntaxError"]

\* ------------------------------------------------------------- withRetry

maxRetries == 3

initialDelay == 1000

RECURSIVE Pow2(_)
\* Math.pow(2, n).
Pow2(n) ==
  IF n = 0 THEN 1 ELSE 2 * Pow2(n - 1)

\* Variant: only error.status is read.
StatusOfDirect(error) ==
  error.status

\* const status = error?.status || error?.response?.status
StatusOf(error) ==
  IF error.status # NoStatus THEN error.status ELSE error.respStatus

\* Variant: every failure is retried.
IsRetryableAlways(error) ==
  TRUE

\* The condition under which withRetry waits and tries again.
IsRetryable(error) ==
  \/ StatusOf(error) = 429
  \/ StatusOf(error) = 503
  \/ Includes(error.message, QUOTA)
  \/ Includes(error.message, FETCH)

\* Variant: linear backoff.
DelayLinear(n) ==
  initialDelay * (n + 1)

\* const delay = initialDelay * Math.pow(2, i)
Delay(n) ==
  initialDelay * Pow2(n)

\* ------------------------------------------------------ model candidates

MODELS ==
  <<"gemini-flash-latest", "gemini-2.0-flash",
    "gemini-2.0-flash-lite-preview-09-2025", "gemini-1.5-pro">>

Operations ==
  {"sendMessage", "generateQuiz", "generateFlashcards"}

\* ------------------------------------------------------------ transcripts

Roles ==
  {"user", "model"}

\* A transcript with the given roles; entry k carries content k, so that two
\* entries of a transcript are never equal and their order can be told.
Transcript(roles) ==
  [k \in 1..Len(roles) |-> [role |-> roles[k], content |-> k]]

Transcripts ==
  { Transcript(r) : r \in UNION { [1..n -> Roles] : n \in 0..MaxHistory } }

\* Variant: the transcript is replayed whole.
ApiHistoryWhole(h) ==
  h

\* const apiHistory = history[0]?.role === "model" ? history.slice(1) : history
ApiHistory(h) ==
  IF Len(h) > 0 /\ h[1].role = "model" THEN SubSeq(h, 2, Len(h)) ELSE h

\* history: apiHistory.map(msg => ({ role: msg.role, parts: [{ text: msg.content }] }))
ChatHistory(h) ==
  [k \in 1..Len(ApiHistory(h)) |->
     [role |-> ApiHistory(h)[k].role, parts |-> <<[text |-> ApiHistory(h)[k].content]>>]]

\* ---------------------------------------------------- the surfaced errors

\* sendMessage, after the loop: the error thrown when every candidate failed.
ChatExhausted(last) ==
  IF Includes(last.message, QUOTA) THEN NewError(MSG_QUOTA)
  ELSE IF last.status = 404 \/ Includes(last.message, NOT_FOUND)
       THEN NewError(MSG_NOT_FOUND)
  ELSE NewError(MSG_CHAT_FAILED \o
                (IF last.message # <<>> THEN last.message ELSE MSG_CHECK_CONNECTION))

\* generateQuiz, after the loop.
QuizExhausted(last) ==
  NewError(MSG_QUIZ_FAILED \o last.message)

\* generateFlashcards, after the loop.
FlashcardsExhausted(last) ==
  NewError(MSG_FLASH_FAILED \o last.message)

Exhausted(o, last) ==
  CASE o = "sendMessage" -> ChatExhausted(last)
    [] o = "generateQuiz" -> QuizExhausted(last)
    [] OTHER -> FlashcardsExhausted(last)

\* Variant: no operation reads the key before the loop.
ChecksApiKeyNever(o) ==
  FALSE

\* if (!apiKey) throw ... : only sendMessage reads the key before the loop.
ChecksApiKey(o) ==
  o = "sendMessage"

\* The failure classes the catch block of sendMessage tells apart.
NotFoundClass(error) ==
  \/ error.status = 404
  \/ Includes(error.message, T404)
  \/ Includes(error.message, NOT_FOUND)

QuotaClass(error) ==
  \/ error.status = 429
  \/ Includes(error.message, T429)
  \/ Includes(error.message, QUOTA)

\* A failure is retryable when its status code (error.status, else
\* error.response.status) is 429 or 503, or its message contains "quota" or
\* "fetch".
ClaimedRetryable(e) ==
  LET code == IF e.status = NoStatus THEN e.respStatus ELSE e.status
  IN  code \in {429, 503} \/ Includes(e.message, QUOTA) \/ Includes(e.message, FETCH)

\* ------------------------------------------------------ fenced responses

\* The characters a response body is made of.
BodyChars ==
  {BQ, "{", "}", " "}

Bodies ==
  UNION { [1..n -> BodyChars] : n \in 0..MaxBody }

\* Whitespace around the fenced block.
Pads ==
  {<<>>, <<" ">>, <<"\n">>}

\* An opening json fence, the body on its own lines, a closing fence.
Fenced(lead, body, trail) ==
  lead \o FENCE_JSON \o <<"\n">> \o body \o <<"\n">> \o FENCE \o trail

\* response.text().replace(...).trim(): the text handed to JSON.parse.
Unfenced(text) ==
  Trim(StripFences(text))

\* ------------------------------------------------------------------ state

VARIABLES
  pc,           \* "idle", "calling" (a network call is outstanding), "waiting"
                \* (the backoff timer is pending), "wrSettled" (withRetry has
                \* settled, the operation has not resumed yet), "done"
  op,           \* the operation invoked
  apiKey,       \* what getApiKey() returns: "" when the key is absent
  history,      \* the transcript argument of sendMessage
  modelIdx,     \* position in MODELS of the candidate being attempted
  lastError,    \* lastError of the operation
  result,       \* how the operation settled
  i,            \* loop index of withRetry
  wrLastError,  \* lastError of withRetry
  wrOutcome,    \* how the current withRetry call settled
  attempts,     \* fn() invocations of the current withRetry call
  delays,       \* the delays awaited by the current withRetry call, in order
  lastSettled,  \* how the latest fn() call of the current withRetry call settled,
                \* and which invocation of that withRetry call it was
  netCalls,     \* network calls issued by the invocation
  tried,        \* the candidates attempted, in order
  upstream,     \* the history sent upstream for each candidate attempted
  allQuota,     \* every candidate failure so far was of the quota class
  allNotFound,  \* every candidate failure so far was of the not-found class
  inFlight,     \* network calls issued and not settled yet
  timers,       \* backoff timers set and not fired yet
  everyRetryable,     \* every network call settled so far failed retryably
  everyNonRetryable,  \* every network call settled so far failed non-retryably
  fencePc,      \* "off", "ready" (a response text was received), "parsed"
  fenceBody,    \* the body of the fenced response
  fenceIn,      \* the response text
  fenceOut,     \* the text handed to JSON.parse
  currentView,  \* App: the view whose component is mounted
  isLoading,    \* isLoading of the mounted component
  messages,     \* ChatInterface: the transcript
  input,        \* ChatInterface: the text of the input field
  attachedFiles,  \* ChatInterface: the pending attachments
  topic,        \* QuizGenerator, Flashcards: the text of the topic field
  attachedFile, \* QuizGenerator, Flashcards: the pending attachment, or Null
  questions,    \* QuizGenerator: the quiz, each question given by its answer
  currentQuestionIndex,  \* QuizGenerator: 0-based index of the question shown
  score,        \* QuizGenerator
  selectedOption,  \* QuizGenerator: the option chosen for the question shown, or Null
  isFinished,   \* QuizGenerator
  cards,        \* Flashcards: the deck
  currentCardIndex,  \* Flashcards: 0-based index of the card shown
  isFlipped,    \* Flashcards
  pending,      \* the request the mounted component awaits, or NoRequest
  orphans,      \* requests awaited by components unmounted since
  event         \* the handler that ran last, and the result it delivered

opVars == <<op, apiKey, history>>

wrVars == <<i, wrLastError, wrOutcome, attempts, delays, lastSettled>>

loopVars == <<modelIdx, netCalls, tried, upstream>>

classVars == <<allQuota, allNotFound>>

netVars == <<inFlight, timers>>

callVars == <<everyRetryable, everyNonRetryable>>

fenceVars == <<fencePc, fenceBody, fenceIn, fenceOut>>

chatVars == <<messages, input, attachedFiles>>

quizVars == <<questions, currentQuestionIndex, score, selectedOption, isFinished>>

cardVars == <<cards, currentCardIndex, isFlipped>>

formVars == <<topic, attachedFile>>

reqVars == <<pending, orphans>>

uiVars ==
  <<currentView, isLoading, chatVars, quizVars, cardVars, formVars, reqVars, event>>

vars ==
  <<pc, op, apiKey, history, modelIdx, lastError, result, i, wrLastError, wrOutcome,
    attempts, delays, lastSettled, netCalls, tried, upstream, allQuota, allNotFound,
    inFlight, timers, everyRetryable, everyNonRetryable,
    fencePc, fenceBody, fenceIn, fenceOut,
    currentView, isLoading, messages, input, attachedFiles, topic, attachedFile,
    questions, currentQuestionIndex, score, selectedOption, isFinished,
    cards, currentCardIndex, isFlipped, pending, orphans, event>>

\* null
Null ==
  "null"

\* No request is awaited by a component unmounted since: the number of such
\* requests in formatFileData and in each operation.
NoOrphans ==
  [formatting |-> 0, sendMessage |-> 0, generateQuiz |-> 0, generateFlashcards |-> 0]

\* No request is awaited.
NoRequest ==
  [op |-> "none", stage |-> "none", history |-> <<>>, message |-> <<>>, files |-> <<>>]

\* A handler that ran: its name and, when it delivered the result of a
\* request to the mounted component, that result.
Event(name) ==
  [name |-> name, outcome |-> NoOutcome]

Delivered(outcome) ==
  [name |-> "settled", outcome |-> outcome]

\* The content of the message ChatInterface starts with.
GREETING ==
  <<"H","i","!"," ","I","'","m"," ","y","o","u","r"," ","A","I"," ","S","t","u","d","y"," ",
  "B","u","d","d","y","."," ","U","p","l","o","a","d"," ","y","o","u","r"," ","s","y","l",
  "l","a","b","u","s",","," ","n","o","t","e","s",","," ","o","r"," ","j","u","s","t"," ",
  "a","s","k"," ","m","e"," ","a"," ","q","u","e","s","t","i","o","n"," ","t","o"," ","g",
  "e","t"," ","s","t","a","r","t","e","d","!">>

\* useState of ChatInterface: the transcript starts with the greeting.
InitialMessages ==
  << [role |-> "model", content |-> GREETING] >>

\* The useState values of the three components, for a view not shown yet.
ComponentsInitial ==
  /\ isLoading = FALSE
  /\ input = <<>>
  /\ attachedFiles = <<>>
  /\ topic = <<>>
  /\ attachedFile = Null
  /\ questions = <<>>
  /\ currentQuestionIndex = 0
  /\ score = 0
  /\ selectedOption = Null
  /\ isFinished = FALSE
  /\ cards = <<>>
  /\ currentCardIndex = 0
  /\ isFlipped = FALSE
  /\ pending = NoRequest
  /\ orphans = NoOrphans
  /\ event = Event("none")

\* The application is not rendered: the request layer is called directly.
Unmounted ==
  /\ currentView = "none"
  /\ messages = <<>>
  /\ ComponentsInitial

\* No operation has been called yet.
RequestIdle ==
  /\ pc = "idle"
  /\ op = "none"
  /\ apiKey = ""
  /\ history = <<>>
  /\ modelIdx = 0
  /\ lastError = Undefined
  /\ result = NoOutcome
  /\ i = 0
  /\ wrLastError = Undefined
  /\ wrOutcome = NoOutcome
  /\ attempts = 0
  /\ delays = <<>>
  /\ lastSettled = NotSettled
  /\ netCalls = 0
  /\ tried = <<>>
  /\ upstream = <<>>
  /\ allQuota = TRUE
  /\ allNotFound = TRUE
  /\ inFlight = 0
  /\ timers = 0
  /\ everyRetryable = TRUE
  /\ everyNonRetryable = TRUE

Init ==
  /\ RequestIdle
  /\ Unmounted
  /\ fencePc = "off"
  /\ fenceBody = <<>>
  /\ fenceIn = <<>>
  /\ fenceOut = <<>>

\* Variant: lastError keeps the first failure.
CaughtFirst(prev, error) ==
  IF prev = Undefined THEN error ELSE prev

\* lastError = error, in the catch block of withRetry.
Caught(prev, error) ==
  error

\* One iteration of the loop over MODELS up to its await: the request is built
\* for candidate m and handed to withRetry, which invokes fn() at once.
StartCandidate(o, h, m) ==
  /\ modelIdx' = m
  /\ tried' = Append(tried, m)
  /\ upstream' = IF o = "sendMessage" THEN Append(upstream, ChatHistory(h)) ELSE upstream
  /\ i' = 0
  /\ wrLastError' = Undefined
  /\ wrOutcome' = NoOutcome
  /\ attempts' = 1
  /\ delays' = <<>>
  /\ lastSettled' = NotSettled
  /\ netCalls' = netCalls + 1
  /\ inFlight' = inFlight + 1
  /\ UNCHANGED timers
  /\ pc' = "calling"

\* Variant: the catch block rethrows instead of going on to the next candidate.
CandidateFailedRethrow(error) ==
  /\ lastError' = error
  /\ allQuota' = (allQuota /\ QuotaClass(error))
  /\ allNotFound' = (allNotFound /\ NotFoundClass(error))
  /\ pc' = "done"
  /\ result' = [kind |-> "rejected", value |-> error]
  /\ UNCHANGED <<wrVars, loopVars, netVars>>

\* Variant: only the not-found and quota classes go on to the next candidate.
CandidateFailedFailFast(error) ==
  /\ lastError' = error
  /\ allQuota' = (allQuota /\ QuotaClass(error))
  /\ allNotFound' = (allNotFound /\ NotFoundClass(error))
  /\ IF modelIdx < Len(MODELS) /\ (NotFoundClass(error) \/ QuotaClass(error))
     THEN /\ StartCandidate(op, history, modelIdx + 1)
          /\ UNCHANGED result
     ELSE /\ pc' = "done"
          /\ result' = [kind |-> "rejected", value |-> Exhausted(op, error)]
          /\ UNCHANGED <<wrVars, loopVars, netVars>>

\* Variant: the loop does not advance, the failed candidate is attempted again.
CandidateFailedRepeat(error) ==
  /\ lastError' = error
  /\ allQuota' = (allQuota /\ QuotaClass(error))
  /\ allNotFound' = (allNotFound /\ NotFoundClass(error))
  /\ IF Len(tried) < Len(MODELS)
     THEN /\ StartCandidate(op, history, modelIdx)
          /\ UNCHANGED result
     ELSE /\ pc' = "done"
          /\ result' = [kind |-> "rejected", value |-> Exhausted(op, error)]
          /\ UNCHANGED <<wrVars, loopVars, netVars>>

\* The catch block of the loop over MODELS, and what follows the loop when the
\* last candidate has failed.
CandidateFailed(error) ==
  /\ lastError' = error
  /\ allQuota' = (allQuota /\ QuotaClass(error))
  /\ allNotFound' = (allNotFound /\ NotFoundClass(error))
  /\ IF modelIdx < Len(MODELS)
     THEN /\ StartCandidate(op, history, modelIdx + 1)
          /\ UNCHANGED result
     ELSE /\ pc' = "done"
          /\ result' = [kind |-> "rejected", value |-> Exhausted(op, error)]
          /\ UNCHANGED <<wrVars, loopVars, netVars>>

\* An inbound operation is called.
Invoke(o, key, h) ==
  /\ pc = "idle"
  /\ op' = o
  /\ apiKey' = key
  /\ history' = h
  /\ UNCHANGED <<classVars, callVars, fenceVars, uiVars>>
  /\ IF ChecksApiKey(o) /\ key = ""
     THEN /\ pc' = "done"
          /\ result' = [kind |-> "rejected", value |-> NewError(MSG_KEY_MISSING)]
          /\ UNCHANGED <<lastError, wrVars, loopVars, netVars>>
     ELSE /\ lastError' = Undefined
          /\ StartCandidate(o, h, 1)
          /\ UNCHANGED result

\* Variant: await fn() without the return, so the loop goes on.
CallSucceedsNoReturn(text) ==
  /\ pc = "calling"
  /\ lastSettled' = [kind |-> "resolved", value |-> text, attempt |-> attempts]
  /\ i' = i + 1
  /\ everyRetryable' = FALSE
  /\ everyNonRetryable' = FALSE
  /\ IF i + 1 < maxRetries
     THEN /\ attempts' = attempts + 1
          /\ netCalls' = netCalls + 1
          /\ pc' = "calling"
          /\ UNCHANGED <<wrOutcome, inFlight>>
     ELSE /\ wrOutcome' = [kind |-> "threw", value |-> wrLastError]
          /\ pc' = "wrSettled"
          /\ inFlight' = inFlight - 1
          /\ UNCHANGED <<attempts, netCalls>>
  /\ UNCHANGED <<opVars, classVars, modelIdx, tried, upstream, lastError, result,
                 wrLastError, delays, timers, fenceVars, uiVars>>

\* The outstanding network call resolves: return await fn().
CallSucceeds(text) ==
  /\ pc = "calling"
  /\ lastSettled' = [kind |-> "resolved", value |-> text, attempt |-> attempts]
  /\ wrOutcome' = [kind |-> "returned", value |-> text]
  /\ pc' = "wrSettled"
  /\ inFlight' = inFlight - 1
  /\ everyRetryable' = FALSE
  /\ everyNonRetryable' = FALSE
  /\ UNCHANGED <<opVars, loopVars, classVars, lastError, result, i, wrLastError,
                 attempts, delays, timers, fenceVars, uiVars>>

\* Variant: the backoff promise is not awaited, the next attempt starts while
\* the timer is pending.
CallFailsNoAwait(error) ==
  /\ pc = "calling"
  /\ lastSettled' = [kind |-> "rejected", value |-> error, attempt |-> attempts]
  /\ wrLastError' = Caught(wrLastError, error)
  /\ everyRetryable' = (everyRetryable /\ ClaimedRetryable(error))
  /\ everyNonRetryable' = (everyNonRetryable /\ ~ClaimedRetryable(error))
  /\ IF IsRetryable(error)
     THEN /\ delays' = Append(delays, Delay(i))
          /\ timers' = timers + 1
          /\ i' = i + 1
          /\ IF i + 1 < maxRetries
             THEN /\ attempts' = attempts + 1
                  /\ netCalls' = netCalls + 1
                  /\ pc' = "calling"
                  /\ UNCHANGED <<wrOutcome, inFlight>>
             ELSE /\ wrOutcome' = [kind |-> "threw", value |-> error]
                  /\ pc' = "wrSettled"
                  /\ inFlight' = inFlight - 1
                  /\ UNCHANGED <<attempts, netCalls>>
     ELSE /\ wrOutcome' = [kind |-> "threw", value |-> error]
          /\ pc' = "wrSettled"
          /\ inFlight' = inFlight - 1
          /\ UNCHANGED <<delays, timers, i, attempts, netCalls>>
  /\ UNCHANGED <<opVars, classVars, modelIdx, tried, upstream, lastError, result,
                 fenceVars, uiVars>>

\* The outstanding network call rejects: the catch block of withRetry.
CallFails(error) ==
  /\ pc = "calling"
  /\ lastSettled' = [kind |-> "rejected", value |-> error, attempt |-> attempts]
  /\ wrLastError' = Caught(wrLastError, error)
  /\ inFlight' = inFlight - 1
  /\ everyRetryable' = (everyRetryable /\ ClaimedRetryable(error))
  /\ everyNonRetryable' = (everyNonRetryable /\ ~ClaimedRetryable(error))
  /\ IF IsRetryable(error)
     THEN /\ delays' = Append(delays, Delay(i))
          /\ timers' = timers + 1
          /\ pc' = "waiting"
          /\ UNCHANGED wrOutcome
     ELSE /\ wrOutcome' = [kind |-> "threw", value |-> error]
          /\ pc' = "wrSettled"
          /\ UNCHANGED <<delays, timers>>
  /\ UNCHANGED <<opVars, loopVars, classVars, lastError, result, i, attempts,
                 fenceVars, uiVars>>

\* Variant: the loop condition is i <= maxRetries.
TimerFiresOffByOne ==
  /\ pc = "waiting"
  /\ i' = i + 1
  /\ timers' = timers - 1
  /\ IF i + 1 <= maxRetries
     THEN /\ attempts' = attempts + 1
          /\ netCalls' = netCalls + 1
          /\ inFlight' = inFlight + 1
          /\ pc' = "calling"
          /\ UNCHANGED wrOutcome
     ELSE /\ wrOutcome' = [kind |-> "threw", value |-> wrLastError]
          /\ pc' = "wrSettled"
          /\ UNCHANGED <<attempts, netCalls, inFlight>>
  /\ UNCHANGED <<opVars, classVars, callVars, modelIdx, tried, upstream, lastError,
                 result, wrLastError, delays, lastSettled, fenceVars, uiVars>>

\* Variant: a timer also bounds the network call, and an attempt that has not
\* settled when it fires is abandoned as a failed one.
TimerFiresOrTimeout ==
  /\ pc \in {"waiting", "calling"}
  /\ i' = i + 1
  /\ timers' = IF pc = "waiting" THEN timers - 1 ELSE timers
  /\ IF i + 1 < maxRetries
     THEN /\ attempts' = attempts + 1
          /\ netCalls' = netCalls + 1
          /\ inFlight' = IF pc = "waiting" THEN inFlight + 1 ELSE inFlight
          /\ pc' = "calling"
          /\ UNCHANGED wrOutcome
     ELSE /\ wrOutcome' = [kind |-> "threw", value |-> wrLastError]
          /\ pc' = "wrSettled"
          /\ inFlight' = 0
          /\ UNCHANGED <<attempts, netCalls>>
  /\ UNCHANGED <<opVars, classVars, callVars, modelIdx, tried, upstream, lastError,
                 result, wrLastError, delays, lastSettled, fenceVars, uiVars>>

\* The backoff timer fires: continue, then the next iteration of the loop
\* of withRetry, or throw lastError after it.
TimerFires ==
  /\ pc = "waiting"
  /\ i' = i + 1
  /\ timers' = timers - 1
  /\ IF i + 1 < maxRetries
     THEN /\ attempts' = attempts + 1
          /\ netCalls' = netCalls + 1
          /\ inFlight' = inFlight + 1
          /\ pc' = "calling"
          /\ UNCHANGED wrOutcome
     ELSE /\ wrOutcome' = [kind |-> "threw", value |-> wrLastError]
          /\ pc' = "wrSettled"
          /\ UNCHANGED <<attempts, netCalls, inFlight>>
  /\ UNCHANGED <<opVars, classVars, callVars, modelIdx, tried, upstream, lastError,
                 result, wrLastError, delays, lastSettled, fenceVars, uiVars>>

\* Variant: JSON.parse stands after the try block, so what it throws leaves
\* the operation.
ResumeParseOutsideTry ==
  /\ pc = "wrSettled"
  /\ UNCHANGED <<opVars, callVars, fenceVars, uiVars>>
  /\ IF wrOutcome.kind = "returned"
     THEN /\ pc' = "done"
          /\ UNCHANGED <<wrVars, loopVars, classVars, netVars, lastError>>
          /\ IF op = "sendMessage"
             THEN result' = [kind |-> "returned", value |-> wrOutcome.value]
             ELSE LET parsed == JSONParse(Unfenced(wrOutcome.value))
                  IN  IF parsed.ok
                      THEN result' = [kind |-> "returned", value |-> parsed.value]
                      ELSE result' = [kind |-> "rejected", value |-> SyntaxError]
     ELSE CandidateFailed(wrOutcome.value)

\* The operation resumes after await withRetry(...): it returns the reply
\* (sendMessage) or the parsed response (generateQuiz, generateFlashcards), or
\* its catch block runs.
Resume ==
  /\ pc = "wrSettled"
  /\ UNCHANGED <<opVars, callVars, fenceVars, uiVars>>
  /\ IF wrOutcome.kind = "returned"
     THEN IF op = "sendMessage"
          THEN /\ pc' = "done"
               /\ result' = [kind |-> "returned", value |-> wrOutcome.value]
               /\ UNCHANGED <<wrVars, loopVars, classVars, netVars, lastError>>
          ELSE LET parsed == JSONParse(Unfenced(wrOutcome.value))
               IN  IF parsed.ok
                   THEN /\ pc' = "done"
                        /\ result' = [kind |-> "returned", value |-> parsed.value]
                        /\ UNCHANGED <<wrVars, loopVars, classVars, netVars, lastError>>
                   ELSE CandidateFailed(SyntaxError)
     ELSE CandidateFailed(wrOutcome.value)

Next ==
  \/ \E o \in Operations, key \in {"", "AIza"} :
       \E h \in (IF o = "sendMessage" THEN Transcripts ELSE {<<>>}) : Invoke(o, key, h)
  \/ \E text \in Responses : CallSucceeds(text)
  \/ \E error \in Failures : CallFails(error)
  \/ TimerFires
  \/ Resume

Spec == Init /\ [][Next]_vars

\* ------------------------------------------------- unwrapping a response

\* A fenced response text has been received by generateQuiz or
\* generateFlashcards.
InitFence ==
  /\ RequestIdle
  /\ Unmounted
  /\ fencePc = "ready"
  /\ fenceBody \in Bodies
  /\ \E lead \in Pads, trail \in Pads : fenceIn = Fenced(lead, fenceBody, trail)
  /\ fenceOut = <<>>

\* response.text().replace(...).trim() is evaluated as the argument of
\* JSON.parse.
Unwrap ==
  /\ fencePc = "ready"
  /\ fenceOut' = Unfenced(fenceIn)
  /\ fencePc' = "parsed"
  /\ UNCHANGED <<pc, opVars, wrVars, loopVars, classVars, netVars, callVars, lastError,
                 result, fenceBody, fenceIn, uiVars>>

NextFence ==
  Unwrap

SpecFence == InitFence /\ [][NextFence]_vars

\* ------------------------------------------------------------- scheduling

\* One failure of each kind the control flow tells apart: retryable,
\* retryable and of the not-found class, not found, unclassified.
SettleFailures ==
  { Err(429, NoStatus, M_TOO_MANY),
    Err(404, NoStatus, M_404_FETCH),
    Err(404, NoStatus, M_NOT_FOUND),
    Err(400, NoStatus, M_BAD) }

\* The outstanding network call settles, one way or the other.
CallSettles ==
  \/ \E text \in Responses : CallSucceeds(text)
  \/ \E error \in SettleFailures : CallFails(error)

\* An operation is called on a conversation with no earlier turn: the
\* transcript has no part in the control flow of the operations.
InvokeFirstTurn ==
  \E o \in Operations, key \in {"", "AIza"} : Invoke(o, key, <<>>)

NextFair ==
  \/ InvokeFirstTurn
  \/ \E text \in Responses : CallSucceeds(text)
  \/ \E error \in SettleFailures : CallFails(error)
  \/ TimerFires
  \/ Resume

\* Every network call settles, every timer set fires, and a continuation
\* whose promise has settled is run by the event loop.
FairSpec ==
  /\ Init
  /\ [][NextFair]_vars
  /\ WF_vars(CallSettles)
  /\ WF_vars(TimerFires)
  /\ WF_vars(Resume)

\* ----------------------------------------------------------------- claims

\* The latest fn() call of the current withRetry call failed.
LastFailed ==
  lastSettled.kind = "rejected"

\* C1: when the attempts of a withRetry call fail retryably, the delay awaited
\* after the failed attempt with index i is 1000 * 2^i (1000, 2000, 4000), the
\* call does not propagate before its third invocation of the operation, and
\* it makes no fourth.
C1_RetryableExhausts ==
  /\ attempts <= 3
  /\ Len(delays) <= 3
  /\ delays = SubSeq(<<1000, 2000, 4000>>, 1, Len(delays))
  /\ (LastFailed /\ ClaimedRetryable(lastSettled.value)) =>
       /\ Len(delays) = lastSettled.attempt
       /\ pc \in {"waiting", "calling", "wrSettled", "done"}
       /\ (pc \in {"wrSettled", "done"}) =>
            /\ wrOutcome.kind = "threw"
            /\ attempts = 3
            /\ delays = <<1000, 2000, 4000>>

C1_Witness ==
  /\ pc = "wrSettled"
  /\ wrOutcome.kind = "threw"
  /\ ClaimedRetryable(lastSettled.value)
  /\ attempts = 3
  /\ delays = <<1000, 2000, 4000>>

\* C2: a non-retryable failure, at whatever attempt index, ends the withRetry
\* call: the call has thrown, the failed invocation was its last one, and no
\* backoff wait followed the failure.
C2_NonRetryablePropagates ==
  (LastFailed /\ ~ClaimedRetryable(lastSettled.value)) =>
    /\ pc \in {"wrSettled", "done"}
    /\ wrOutcome.kind = "threw"
    /\ attempts = lastSettled.attempt
    /\ Len(delays) = lastSettled.attempt - 1

C2_Witness ==
  /\ pc = "wrSettled"
  /\ LastFailed
  /\ ~ClaimedRetryable(lastSettled.value)
  /\ lastSettled.attempt = 2
  /\ delays = <<1000>>

\* C3: whenever withRetry rejects, the value it rejects with is the failure
\* raised by the last attempt it made, unchanged.
C3_RejectsWithLastFailure ==
  (pc = "wrSettled" /\ wrOutcome.kind = "threw") =>
    /\ LastFailed
    /\ lastSettled.attempt = attempts
    /\ wrOutcome.value = lastSettled.value

C3_Witness ==
  /\ pc = "wrSettled"
  /\ wrOutcome.kind = "threw"
  /\ attempts = 3
  /\ Len(delays) = 3
  /\ wrOutcome.value = lastSettled.value

\* C4: when an attempt inside withRetry succeeds, withRetry returns the result
\* of that attempt: the operation is not invoked again and no backoff wait
\* follows.
C4_SuccessReturnsAtOnce ==
  (lastSettled.kind = "resolved") =>
    /\ pc \in {"wrSettled", "done"}
    /\ wrOutcome = [kind |-> "returned", value |-> lastSettled.value]
    /\ attempts = lastSettled.attempt
    /\ Len(delays) = lastSettled.attempt - 1

C4_Witness ==
  /\ pc = "wrSettled"
  /\ lastSettled.kind = "resolved"
  /\ lastSettled.attempt = 3
  /\ wrOutcome.kind = "returned"

\* C5: withRetry treats a failure as retryable (it schedules a backoff wait
\* for it) if and only if the status code is 429 or 503 or the message
\* contains "quota" or "fetch".
C5_RetryPredicate ==
  LastFailed =>
    (ClaimedRetryable(lastSettled.value) <=> Len(delays) >= lastSettled.attempt)

C5_Witness ==
  /\ pc = "waiting"
  /\ LastFailed
  /\ lastSettled.value.status = NoStatus
  /\ lastSettled.value.respStatus = 429
  /\ Len(delays) = lastSettled.attempt

\* With the API key present, every candidate was attempted and the operation
\* rejected.
AllCandidatesFailed ==
  /\ apiKey # ""
  /\ pc = "done"
  /\ result.kind = "rejected"
  /\ Len(tried) = Len(MODELS)

\* C6: if every candidate fails with a quota-indicating failure, the message
\* of the error surfaced to the caller contains the word "Quota".
C6_QuotaSurfaced ==
  (AllCandidatesFailed /\ allQuota) => Includes(result.value.message, UC_QUOTA)

\* C7: if every candidate fails with a not-found-indicating failure, the error
\* surfaced to the caller is the key/model-validity message.
C7_NotFoundSurfaced ==
  (AllCandidatesFailed /\ allNotFound) => result.value.message = MSG_NOT_FOUND

\* C8: with the API key absent, each of the three operations fails at once and
\* no network call is attempted for any candidate.
C8_NoCallWithoutKey ==
  (pc # "idle" /\ apiKey = "") =>
    /\ pc = "done"
    /\ result.kind = "rejected"
    /\ netCalls = 0
    /\ tried = <<>>

\* C9: sendMessage with an absent API key rejects with the missing-key
\* message before the loop starts: no candidate is attempted, no network call
\* is made and no backoff wait occurs.
C9_MissingKeyFailsFast ==
  (op = "sendMessage" /\ apiKey = "") =>
    /\ pc = "done"
    /\ result = [kind |-> "rejected", value |-> NewError(MSG_KEY_MISSING)]
    /\ tried = <<>>
    /\ netCalls = 0
    /\ attempts = 0
    /\ delays = <<>>

C9_Witness ==
  /\ op = "sendMessage"
  /\ apiKey = ""
  /\ pc = "done"
  /\ result.kind = "rejected"

\* The history the claim expects upstream for transcript h.
ClaimedHistory(h) ==
  IF h # <<>> /\ Head(h).role = "model" THEN Tail(h) ELSE h

\* C10: for every candidate attempted by sendMessage, the upstream history is
\* the transcript without a leading model entry, and the whole transcript
\* when it is empty or starts with a user entry, in the same order.
C10_UpstreamHistory ==
  (op = "sendMessage") =>
    /\ Len(upstream) = Len(tried)
    /\ \A c \in 1..Len(upstream) :
         /\ Len(upstream[c]) = Len(ClaimedHistory(history))
         /\ \A k \in 1..Len(upstream[c]) :
              /\ upstream[c][k].role = ClaimedHistory(history)[k].role
              /\ upstream[c][k].parts = <<[text |-> ClaimedHistory(history)[k].content]>>

C10_Witness ==
  /\ op = "sendMessage"
  /\ Len(upstream) >= 2
  /\ Len(history) = 2
  /\ history[1].role = "model"
  /\ history[2].role = "model"
  /\ upstream[2] = <<[role |-> "model", parts |-> <<[text |-> 2]>>]>>

\* C11: for a response made of an opening json fence, a body and a closing
\* fence, with whitespace around them, the text handed to the JSON parser is
\* the trimmed body: only the surrounding fences are removed.
C11_FencedBodyUnwrapped ==
  (fencePc = "parsed") => fenceOut = Trim(fenceBody)

\* C12: a candidate whose call fails with a not-found failure (status 404, or
\* a message containing "404" or "not found") gets exactly one network call,
\* with no retry and no backoff wait, whatever else the message contains.
C12_NotFoundNotRetried ==
  (apiKey # "" /\ LastFailed /\ lastSettled.attempt = 1
     /\ NotFoundClass(lastSettled.value)) =>
    /\ pc \in {"wrSettled", "done"}
    /\ attempts = 1
    /\ delays = <<>>
    /\ timers = 0

\* withRetry has rejected with a retryable failure: its retries are exhausted.
RetriesExhausted ==
  /\ pc = "wrSettled"
  /\ wrOutcome.kind = "threw"
  /\ ClaimedRetryable(lastSettled.value)

\* C13: a candidate failing with transient errors is retried with backoff
\* inside its own withRetry call (three invocations, three waits); once the
\* retries are exhausted the operation does not reject while a candidate
\* remains: the failure becomes lastError and the next candidate starts with
\* a fresh withRetry call (index 0, first invocation, no delay awaited yet).
C13_ExhaustedAdvances ==
  [][ (RetriesExhausted /\ modelIdx < 4) =>
        /\ attempts = 3
        /\ delays = <<1000, 2000, 4000>>
        /\ pc' = "calling"
        /\ modelIdx' = modelIdx + 1
        /\ i' = 0
        /\ attempts' = 1
        /\ delays' = <<>>
        /\ lastError' = lastSettled.value
        /\ result'.kind = "none" ]_vars

C13_Witness ==
  /\ pc = "calling"
  /\ modelIdx = 2
  /\ i = 0
  /\ attempts = 1
  /\ netCalls = 4
  /\ everyRetryable
  /\ ClaimedRetryable(lastError)

\* The iteration for the current candidate ends with a result: the call
\* resolved and, in the two generators, the response parsed.
CandidateSucceeded ==
  /\ pc = "wrSettled"
  /\ wrOutcome.kind = "returned"
  /\ op = "sendMessage" \/ JSONParse(Unfenced(wrOutcome.value)).ok

\* The iteration for the current candidate ends in the catch block.
CandidateThrew ==
  /\ pc = "wrSettled"
  /\ ~CandidateSucceeded

\* C14: the candidates are attempted in the order gemini-flash-latest,
\* gemini-2.0-flash, gemini-2.0-flash-lite-preview-09-2025, gemini-1.5-pro;
\* none is attempted twice or skipped; a candidate is attempted only after
\* the one before it has failed; the first candidate that succeeds ends the
\* loop and no later candidate receives a call.
C14_CandidateOrder ==
  /\ [](/\ Len(tried) <= 4
        /\ modelIdx = Len(tried)
        /\ \A k \in 1..Len(tried) :
             /\ tried[k] = k
             /\ MODELS[tried[k]] =
                  <<"gemini-flash-latest", "gemini-2.0-flash",
                    "gemini-2.0-flash-lite-preview-09-2025", "gemini-1.5-pro">>[k])
  /\ [][ /\ (tried' # tried) =>
             /\ tried' = Append(tried, Len(tried) + 1)
             /\ tried = <<>> \/ CandidateThrew
             /\ result'.kind = "none"
         /\ CandidateSucceeded =>
             /\ pc' = "done"
             /\ result'.kind = "returned"
             /\ tried' = tried
             /\ netCalls' = netCalls ]_vars

C14_Witness ==
  /\ pc = "done"
  /\ result.kind = "returned"
  /\ tried = <<1, 2, 3>>

\* C15: when every candidate of sendMessage has failed, the error thrown is
\* chosen from the failure of the last candidate: the quota message if it
\* mentions quota, otherwise the not-found message if it is of the 404 class
\* (status 404, or a message containing "404" or "not found"), otherwise the
\* generic message followed by the text of that failure.
C15_ExhaustionMessage ==
  (op = "sendMessage" /\ AllCandidatesFailed) =>
    LET last == lastSettled.value
        text == result.value.message
    IN  IF Includes(last.message, QUOTA) THEN text = MSG_QUOTA
        ELSE IF NotFoundClass(last) THEN text = MSG_NOT_FOUND
        ELSE StartsAt(text, 1, MSG_CHAT_FAILED \o last.message)

\* A generator resumes with a response text that is no JSON document.
ParseFails ==
  /\ pc = "wrSettled"
  /\ op \in {"generateQuiz", "generateFlashcards"}
  /\ wrOutcome.kind = "returned"
  /\ ~JSONParse(Unfenced(wrOutcome.value)).ok

\* C16, as claimed: in generateQuiz and generateFlashcards a parse failure is
\* not caught, the operation rejects with the parse exception itself.
C16_ParseFailurePropagates ==
  [][ ParseFails =>
        /\ pc' = "done"
        /\ result' = [kind |-> "rejected", value |-> SyntaxError] ]_vars

\* C16, amended: the parse failure is caught by the catch block of the loop
\* and handled as the failure of that candidate: the next candidate is
\* attempted, and after the last candidate the operation rejects with the
\* "Failed to generate ... after trying multiple models. " error followed by
\* the message of the parse failure.
C16_ParseFailureCaught ==
  [][ ParseFails =>
        /\ lastError' = SyntaxError
        /\ IF modelIdx < 4
           THEN /\ pc' = "calling"
                /\ modelIdx' = modelIdx + 1
                /\ tried' = Append(tried, modelIdx + 1)
                /\ result'.kind = "none"
           ELSE /\ pc' = "done"
                /\ result'.kind = "rejected"
                /\ result'.value.message =
                     (IF op = "generateQuiz" THEN MSG_QUIZ_FAILED ELSE MSG_FLASH_FAILED)
                       \o M_SYNTAX ]_vars

C16_Witness ==
  /\ op = "generateQuiz"
  /\ pc = "calling"
  /\ modelIdx = 2
  /\ lastError = SyntaxError

\* C17: with the API key present, a failure of a candidate, of whatever
\* class, never makes the operation reject while a candidate is untried: a
\* rejection implies that all four candidates were attempted.
C17_RejectsOnlyAfterAll ==
  (apiKey # "" /\ result.kind = "rejected") =>
    /\ pc = "done"
    /\ tried = <<1, 2, 3, 4>>

C17_Witness ==
  /\ apiKey # ""
  /\ pc = "done"
  /\ result.kind = "rejected"
  /\ tried = <<1, 2, 3, 4>>
  /\ lastError.status = 400
  /\ ~allQuota
  /\ ~allNotFound

\* C18: at most one network call is outstanding at any time, and none
\* during a backoff wait: a call is outstanding exactly while the invocation
\* awaits fn(), a timer is pending exactly while it awaits the delay.
C18_OneOutstandingCall ==
  /\ inFlight \in {0, 1}
  /\ timers \in {0, 1}
  /\ inFlight + timers <= 1
  /\ (inFlight = 1) <=> (pc = "calling")
  /\ (timers = 1) <=> (pc = "waiting")

C18_Witness ==
  /\ pc = "waiting"
  /\ timers = 1
  /\ inFlight = 0
  /\ attempts = 2
  /\ netCalls >= 2

\* C19: when every network call settles, every invocation settles, with at
\* most 12 network calls: exactly 12 when every call fails retryably, exactly
\* 4 when every call fails non-retryably.
C19_SettlesWithinTwelveCalls ==
  /\ [](/\ netCalls <= 12
        /\ (pc = "done" /\ netCalls > 0 /\ everyRetryable) => netCalls = 12
        /\ (pc = "done" /\ netCalls > 0 /\ everyNonRetryable) => netCalls = 4)
  /\ (pc # "idle") ~> (pc = "done")

C19_Witness ==
  /\ pc = "done"
  /\ netCalls = 12
  /\ everyRetryable
  /\ result.kind = "rejected"

\* C20: there is no timeout: while a network call is outstanding, the only
\* step the invocation takes is the settling of that call; until then it
\* neither retries nor advances nor settles.
C20_HungCallBlocks ==
  [][ (pc = "calling") =>
        /\ lastSettled' # lastSettled
        /\ lastSettled'.kind \in {"resolved", "rejected"}
        /\ lastSettled'.attempt = attempts
        /\ modelIdx' = modelIdx
        /\ attempts' = attempts
        /\ netCalls' = netCalls
        /\ result' = result ]_vars

C20_Witness ==
  /\ pc = "calling"
  /\ inFlight = 1
  /\ modelIdx = 2
  /\ attempts = 2

\* --------------------------------------------------------- user interface

\* Sends of one mounted ChatInterface.
MaxTurns == 2

\* Questions of a generated quiz.
MaxQuestions == 2

\* Cards of a generated deck.
MaxCards == 2

\* Requests still awaited by components that were unmounted.
MaxOrphans == 1

Views ==
  {"chat", "quiz", "flashcards"}

\* What the user can have typed in the input or topic field:
\* "", " " and "hi".
Inputs ==
  {<<>>, <<" ">>, <<"h","i">>}

\* The files the user has to select from.
Files ==
  {"notes.pdf"}

\* The options of every question.
Options ==
  {"A", "B"}

\* "Error: "
ERROR_PREFIX ==
  <<"E","r","r","o","r",":"," ">>

\* "Failed to get response from AI."
MSG_NO_RESPONSE ==
  <<"F","a","i","l","e","d"," ","t","o"," ","g","e","t"," ","r","e","s","p","o","n","s","e",
  " ","f","r","o","m"," ","A","I",".">>

\* "the uploaded content"
UPLOADED_CONTENT ==
  <<"t","h","e"," ","u","p","l","o","a","d","e","d"," ","c","o","n","t","e","n","t">>

\* Variant: only the empty text is blank.
BlankIfEmpty(text) ==
  text = <<>>

\* !text.trim()
Blank(text) ==
  Trim(text) = <<>>

\* Failures of the last candidate that the components are shown to receive.
LastFailures ==
  { Err(400, NoStatus, M_BAD) }

\* How sendMessage can settle: a reply, or one of the errors it throws.
ChatOutcomes ==
  { [kind |-> "returned", value |-> R_PROSE],
    [kind |-> "rejected", value |-> NewError(MSG_KEY_MISSING)] }
  \cup { [kind |-> "rejected", value |-> Exhausted("sendMessage", e)] : e \in LastFailures }

\* The quizzes a response can carry: each question is given by its answer.
Quizzes ==
  UNION { [1..n -> Options] : n \in 0..MaxQuestions }

\* How generateQuiz can settle: data.questions, or the error it throws.
QuizOutcomes ==
  { [kind |-> "returned", value |-> q] : q \in Quizzes }
  \cup { [kind |-> "rejected", value |-> Exhausted("generateQuiz", e)] : e \in LastFailures }

\* The decks a response can carry: card k is given by its number.
Decks ==
  { [k \in 1..n |-> k] : n \in 0..MaxCards }

\* How generateFlashcards can settle: data.flashcards, or the error it throws.
FlashcardOutcomes ==
  { [kind |-> "returned", value |-> d] : d \in Decks }
  \cup { [kind |-> "rejected", value |-> Exhausted("generateFlashcards", e)] :
            e \in LastFailures }

serviceVars ==
  <<pc, opVars, wrVars, loopVars, classVars, netVars, callVars, lastError, result,
    fenceVars>>

\* A view is rendered for the first time or again: its component is mounted
\* with its useState values.
Mount(v) ==
  /\ currentView' = v
  /\ isLoading' = FALSE
  /\ messages' = IF v = "chat" THEN InitialMessages ELSE <<>>
  /\ input' = <<>>
  /\ attachedFiles' = <<>>
  /\ topic' = <<>>
  /\ attachedFile' = Null
  /\ questions' = <<>>
  /\ currentQuestionIndex' = 0
  /\ score' = 0
  /\ selectedOption' = Null
  /\ isFinished' = FALSE
  /\ cards' = <<>>
  /\ currentCardIndex' = 0
  /\ isFlipped' = FALSE

\* The application has rendered: currentView is "chat".
InitUI ==
  /\ RequestIdle
  /\ fencePc = "off"
  /\ fenceBody = <<>>
  /\ fenceIn = <<>>
  /\ fenceOut = <<>>
  /\ currentView = "chat"
  /\ messages = InitialMessages
  /\ ComponentsInitial

\* Requests awaited by components unmounted since.
OrphanCount ==
  orphans.formatting + orphans.sendMessage + orphans.generateQuiz
    + orphans.generateFlashcards

\* The sidebar changes the view: the component shown is unmounted, its state
\* is lost and the request it awaits goes on without it.
onViewChange(v) ==
  /\ v # currentView
  /\ IF pending = NoRequest
     THEN UNCHANGED orphans
     ELSE /\ OrphanCount < MaxOrphans
          /\ orphans' = IF pending.stage = "formatting"
                        THEN [orphans EXCEPT !.formatting = @ + 1]
                        ELSE [orphans EXCEPT ![pending.op] = @ + 1]
  /\ pending' = NoRequest
  /\ Mount(v)
  /\ event' = Event("other")
  /\ UNCHANGED serviceVars

\* formatFileData() of a component unmounted since resolves: sendMessage is
\* called.
OrphanFormatted ==
  /\ orphans.formatting > 0
  /\ orphans' = [orphans EXCEPT !.formatting = @ - 1, !.sendMessage = @ + 1]
  /\ event' = Event("other")
  /\ UNCHANGED <<serviceVars, currentView, isLoading, chatVars, quizVars, cardVars,
                 formVars, pending>>

\* The request of a component unmounted since settles: its state updates
\* have no effect.
OrphanSettles(o) ==
  /\ orphans[o] > 0
  /\ orphans' = [orphans EXCEPT ![o] = @ - 1]
  /\ event' = Event("other")
  /\ UNCHANGED <<serviceVars, currentView, isLoading, chatVars, quizVars, cardVars,
                 formVars, pending>>

\* --------------------------------------------------------- ChatInterface

\* onChange of the input field.
setInput(text) ==
  /\ currentView = "chat"
  /\ text # input
  /\ input' = text
  /\ event' = Event("other")
  /\ UNCHANGED <<serviceVars, currentView, isLoading, messages, attachedFiles, quizVars,
                 cardVars, formVars, reqVars>>

\* handleFileUpload of ChatInterface, for one file the user has not
\* attached yet.
chatFileUpload(file) ==
  /\ currentView = "chat"
  /\ \A k \in DOMAIN attachedFiles : attachedFiles[k] # file
  /\ attachedFiles' = Append(attachedFiles, file)
  /\ event' = Event("other")
  /\ UNCHANGED <<serviceVars, currentView, isLoading, messages, input, quizVars,
                 cardVars, formVars, reqVars>>

\* removeFile(index) of ChatInterface.
chatRemoveFile(index) ==
  /\ currentView = "chat"
  /\ index \in DOMAIN attachedFiles
  /\ attachedFiles' = SubSeq(attachedFiles, 1, index - 1)
                         \o SubSeq(attachedFiles, index + 1, Len(attachedFiles))
  /\ event' = Event("other")
  /\ UNCHANGED <<serviceVars, currentView, isLoading, messages, input, quizVars,
                 cardVars, formVars, reqVars>>

\* Variant: the transcript handed to sendMessage has the new message already.
SentHistoryWithNew(transcript, newUserMsg) ==
  Append(transcript, newUserMsg)

\* The first argument of sendMessage: messages as read by handleSend.
SentHistory(transcript, newUserMsg) ==
  transcript

\* handleSend: the Enter key or the send button.
handleSend ==
  /\ currentView = "chat"
  /\ Len(messages) < 1 + 2 * MaxTurns
  /\ event' = Event("handleSend")
  /\ UNCHANGED <<serviceVars, currentView, quizVars, cardVars, formVars, orphans>>
  /\ IF (Blank(input) /\ Len(attachedFiles) = 0) \/ isLoading
     THEN UNCHANGED <<isLoading, chatVars, pending>>
     ELSE LET newUserMsg == [role |-> "user", content |-> input]
          IN  /\ messages' = Append(messages, newUserMsg)
              /\ input' = <<>>
              /\ attachedFiles' = <<>>
              /\ isLoading' = TRUE
              /\ pending' = [op |-> "sendMessage", stage |-> "formatting",
                             history |-> SentHistory(messages, newUserMsg),
                             message |-> input, files |-> attachedFiles]

\* await formatFileData() resolves: sendMessage is called.
FilesFormatted ==
  /\ pending.op = "sendMessage"
  /\ pending.stage = "formatting"
  /\ pending' = [pending EXCEPT !.stage = "calling"]
  /\ event' = Event("other")
  /\ UNCHANGED <<serviceVars, currentView, isLoading, chatVars, quizVars, cardVars,
                 formVars, orphans>>

\* The content of the message appended when sendMessage has settled.
ReplyContent(outcome) ==
  IF outcome.kind = "returned" THEN outcome.value
  ELSE ERROR_PREFIX \o (IF outcome.value.message # <<>> THEN outcome.value.message
                        ELSE MSG_NO_RESPONSE)

\* Variant: the message is appended to the transcript handleSend had read.
AppendedToRead(prev, read, msg) ==
  Append(read, msg)

\* setMessages(prev => [...prev, msg])
Appended(prev, read, msg) ==
  Append(prev, msg)

\* Variant: setIsLoading(false) stands at the end of the try block.
LoadingAfterTry(outcome) ==
  outcome.kind = "rejected"

\* finally { setIsLoading(false) }
LoadingAfter(outcome) ==
  FALSE

\* sendMessage settles for the mounted ChatInterface: try, catch, finally.
ChatSettles(outcome) ==
  /\ pending.op = "sendMessage"
  /\ pending.stage = "calling"
  /\ messages' = Appended(messages, pending.history,
                          [role |-> "model", content |-> ReplyContent(outcome)])
  /\ isLoading' = LoadingAfter(outcome)
  /\ pending' = NoRequest
  /\ event' = Delivered(outcome)
  /\ UNCHANGED <<serviceVars, currentView, input, attachedFiles, quizVars, cardVars,
                 formVars, orphans>>

\* --------------------------------------------- QuizGenerator, Flashcards

\* The generator form of the mounted component is rendered.
FormShown ==
  /\ ~isLoading
  /\ \/ currentView = "quiz" /\ Len(questions) = 0
     \/ currentView = "flashcards" /\ Len(cards) = 0

\* The question view of QuizGenerator is rendered.
QuestionShown ==
  /\ currentView = "quiz"
  /\ Len(questions) > 0
  /\ ~isFinished

\* The results view of QuizGenerator is rendered.
ResultsShown ==
  /\ currentView = "quiz"
  /\ isFinished

\* onChange of the topic field.
setTopic(text) ==
  /\ FormShown
  /\ text # topic
  /\ topic' = text
  /\ event' = Event("other")
  /\ UNCHANGED <<serviceVars, currentView, isLoading, chatVars, quizVars, cardVars,
                 attachedFile, reqVars>>

\* handleFileUpload of QuizGenerator and Flashcards: the attach button is
\* rendered while no file is attached.
handleFileUpload(file) ==
  /\ FormShown
  /\ attachedFile = Null
  /\ attachedFile' = file
  /\ event' = Event("other")
  /\ UNCHANGED <<serviceVars, currentView, isLoading, chatVars, quizVars, cardVars,
                 topic, reqVars>>

\* removeFile of QuizGenerator and Flashcards.
removeFile ==
  /\ FormShown
  /\ attachedFile # Null
  /\ attachedFile' = Null
  /\ event' = Event("other")
  /\ UNCHANGED <<serviceVars, currentView, isLoading, chatVars, quizVars, cardVars,
                 topic, reqVars>>

\* The request handleGenerate issues: topic || "the uploaded content", and
\* fileData when a file is attached.
GenerateRequest(o) ==
  [op |-> o, stage |-> "calling", history |-> <<>>,
   message |-> IF topic # <<>> THEN topic ELSE UPLOADED_CONTENT,
   files |-> IF attachedFile # Null THEN <<attachedFile>> ELSE <<>>]

\* handleGenerate of QuizGenerator: the Generate button of the form, enabled
\* unless the topic is blank and no file is attached, or the Retake Quiz
\* button of the results view.
quizHandleGenerate ==
  /\ currentView = "quiz"
  /\ \/ FormShown /\ ~(Blank(topic) /\ attachedFile = Null)
     \/ ResultsShown
  /\ event' = Event("handleGenerate")
  /\ UNCHANGED <<serviceVars, currentView, chatVars, cardVars, formVars, orphans,
                 selectedOption>>
  /\ IF (Blank(topic) /\ attachedFile = Null) \/ isLoading
     THEN UNCHANGED <<isLoading, questions, currentQuestionIndex, score, isFinished,
                      pending>>
     ELSE /\ isLoading' = TRUE
          /\ questions' = <<>>
          /\ currentQuestionIndex' = 0
          /\ score' = 0
          /\ isFinished' = FALSE
          /\ pending' = GenerateRequest("generateQuiz")

\* generateQuiz settles for the mounted QuizGenerator: try, catch, finally.
QuizSettles(outcome) ==
  /\ pending.op = "generateQuiz"
  /\ pending.stage = "calling"
  /\ questions' = IF outcome.kind = "returned" THEN outcome.value ELSE questions
  /\ isLoading' = LoadingAfter(outcome)
  /\ pending' = NoRequest
  /\ event' = Delivered(outcome)
  /\ UNCHANGED <<serviceVars, currentView, chatVars, cardVars, formVars, orphans,
                 currentQuestionIndex, score, selectedOption, isFinished>>

\* handleOptionSelect: an option button of the question shown; the buttons
\* are disabled once an option is selected.
handleOptionSelect(option) ==
  /\ QuestionShown
  /\ selectedOption = Null
  /\ event' = Event("handleOptionSelect")
  /\ UNCHANGED <<serviceVars, currentView, isLoading, chatVars, cardVars, formVars,
                 reqVars, questions, currentQuestionIndex, isFinished>>
  /\ IF selectedOption # Null
     THEN UNCHANGED <<selectedOption, score>>
     ELSE /\ selectedOption' = option
          /\ score' = IF option = questions[currentQuestionIndex + 1]
                      THEN score + 1 ELSE score

\* Variant: the index is advanced whatever the length of the quiz.
HasNextAlways(index, length) ==
  TRUE

\* currentQuestionIndex < questions.length - 1
HasNext(index, length) ==
  index < length - 1

\* handleNext: the button is rendered once an option is selected.
handleNext ==
  /\ QuestionShown
  /\ selectedOption # Null
  /\ event' = Event("other")
  /\ UNCHANGED <<serviceVars, currentView, isLoading, chatVars, cardVars, formVars,
                 reqVars, questions, score>>
  /\ IF HasNext(currentQuestionIndex, Len(questions))
     THEN /\ currentQuestionIndex' = currentQuestionIndex + 1
          /\ selectedOption' = Null
          /\ UNCHANGED isFinished
     ELSE /\ isFinished' = TRUE
          /\ UNCHANGED <<currentQuestionIndex, selectedOption>>

\* The Try Another Topic button of the results view.
tryAnotherTopic ==
  /\ ResultsShown
  /\ questions' = <<>>
  /\ attachedFile' = Null
  /\ event' = Event("other")
  /\ UNCHANGED <<serviceVars, currentView, isLoading, chatVars, cardVars, topic,
                 reqVars, currentQuestionIndex, score, selectedOption, isFinished>>

\* handleGenerate of Flashcards: the Generate button of the form, enabled
\* unless the topic is blank and no file is attached.
cardsHandleGenerate ==
  /\ currentView = "flashcards"
  /\ FormShown
  /\ ~(Blank(topic) /\ attachedFile = Null)
  /\ event' = Event("handleGenerate")
  /\ UNCHANGED <<serviceVars, currentView, chatVars, quizVars, formVars, orphans>>
  /\ IF (Blank(topic) /\ attachedFile = Null) \/ isLoading
     THEN UNCHANGED <<isLoading, cardVars, pending>>
     ELSE /\ isLoading' = TRUE
          /\ cards' = <<>>
          /\ currentCardIndex' = 0
          /\ isFlipped' = FALSE
          /\ pending' = GenerateRequest("generateFlashcards")

\* generateFlashcards settles for the mounted Flashcards: try, catch, finally.
FlashcardsSettle(outcome) ==
  /\ pending.op = "generateFlashcards"
  /\ pending.stage = "calling"
  /\ cards' = IF outcome.kind = "returned" THEN outcome.value ELSE cards
  /\ isLoading' = LoadingAfter(outcome)
  /\ pending' = NoRequest
  /\ event' = Delivered(outcome)
  /\ UNCHANGED <<serviceVars, currentView, chatVars, quizVars, formVars, orphans,
                 currentCardIndex, isFlipped>>

\* nextCard: the button is disabled on the last card.
nextCard ==
  /\ currentView = "flashcards"
  /\ Len(cards) > 0
  /\ currentCardIndex # Len(cards) - 1
  /\ event' = Event("other")
  /\ UNCHANGED <<serviceVars, currentView, isLoading, chatVars, quizVars, formVars,
                 reqVars, cards>>
  /\ IF currentCardIndex < Len(cards) - 1
     THEN /\ currentCardIndex' = currentCardIndex + 1
          /\ isFlipped' = FALSE
     ELSE UNCHANGED <<currentCardIndex, isFlipped>>

\* prevCard: the button is disabled on the first card.
prevCard ==
  /\ currentView = "flashcards"
  /\ Len(cards) > 0
  /\ currentCardIndex # 0
  /\ event' = Event("other")
  /\ UNCHANGED <<serviceVars, currentView, isLoading, chatVars, quizVars, formVars,
                 reqVars, cards>>
  /\ IF currentCardIndex > 0
     THEN /\ currentCardIndex' = currentCardIndex - 1
          /\ isFlipped' = FALSE
     ELSE UNCHANGED <<currentCardIndex, isFlipped>>

\* A click on the card: setIsFlipped(!isFlipped).
flipCard ==
  /\ currentView = "flashcards"
  /\ Len(cards) > 0
  /\ isFlipped' = ~isFlipped
  /\ event' = Event("other")
  /\ UNCHANGED <<serviceVars, currentView, isLoading, chatVars, quizVars, formVars,
                 reqVars, cards, currentCardIndex>>

\* The Clear and start new topic button: setCards([]).
clearCards ==
  /\ currentView = "flashcards"
  /\ Len(cards) > 0
  /\ cards' = <<>>
  /\ event' = Event("other")
  /\ UNCHANGED <<serviceVars, currentView, isLoading, chatVars, quizVars, formVars,
                 reqVars, currentCardIndex, isFlipped>>

NextUI ==
  \/ \E v \in Views : onViewChange(v)
  \/ OrphanFormatted
  \/ \E o \in Operations : OrphanSettles(o)
  \/ \E text \in Inputs : setInput(text)
  \/ \E file \in Files : chatFileUpload(file)
  \/ \E index \in DOMAIN attachedFiles : chatRemoveFile(index)
  \/ handleSend
  \/ FilesFormatted
  \/ \E outcome \in ChatOutcomes : ChatSettles(outcome)
  \/ \E text \in Inputs : setTopic(text)
  \/ \E file \in Files : handleFileUpload(file)
  \/ removeFile
  \/ quizHandleGenerate
  \/ \E outcome \in QuizOutcomes : QuizSettles(outcome)
  \/ \E option \in Options : handleOptionSelect(option)
  \/ handleNext
  \/ tryAnotherTopic
  \/ cardsHandleGenerate
  \/ \E outcome \in FlashcardOutcomes : FlashcardsSettle(outcome)
  \/ nextCard
  \/ prevCard
  \/ flipCard
  \/ clearCards

SpecUI == InitUI /\ [][NextUI]_vars

\* ------------------------------------------------------------- claims 21-30

\* Requests of operation o that were started and have not settled.
Outstanding(o) ==
  (IF pending.op = o /\ pending.stage = "calling" THEN 1 ELSE 0) + orphans[o]

\* C21: under any interleaving of user events and request completions, a
\* second sendMessage, generateQuiz or generateFlashcards is never started
\* before the previous one has settled.
C21_OneRequestAtATime ==
  \A o \in Operations : Outstanding(o) <= 1

\* A text that is empty or has white space only.
IsBlank(text) ==
  \A k \in DOMAIN text : IsSpace(text[k])

\* The handler of the mounted component is called with a blank text and
\* nothing attached.
NothingToSend ==
  IF currentView = "chat"
  THEN IsBlank(input) /\ attachedFiles = <<>>
  ELSE IsBlank(topic) /\ attachedFile = Null

\* C22: no request is issued with a blank message or topic and no
\* attachment, and a handler called in that case returns with all component
\* state unchanged.
C22_BlankNeverSent ==
  /\ [](pending.op # "none" => (~IsBlank(pending.message) \/ pending.files # <<>>))
  /\ [][ (event'.name \in {"handleSend", "handleGenerate"} /\ NothingToSend) =>
           UNCHANGED <<currentView, isLoading, chatVars, quizVars, cardVars, formVars,
                       reqVars>> ]_vars

C22_Witness ==
  /\ event.name = "handleSend"
  /\ input = <<" ">>
  /\ attachedFiles = <<>>
  /\ Len(messages) = 3
  /\ pending = NoRequest
  /\ ~isLoading

\* C23: a rejection delivered to a component leaves it not loading: in
\* ChatInterface it appends exactly one model message, "Error: " followed by
\* the message of the failure; in QuizGenerator and Flashcards the list stays
\* empty and the generator form is shown again. isLoading is never true
\* unless a request is awaited.
C23_RejectionEndsLoading ==
  /\ [](isLoading => pending # NoRequest)
  /\ [][ (event'.name = "settled" /\ event'.outcome.kind = "rejected") =>
           /\ isLoading' = FALSE
           /\ pending' = NoRequest
           /\ currentView = "chat" =>
                messages' = Append(messages,
                                   [role |-> "model",
                                    content |-> ERROR_PREFIX
                                                  \o event'.outcome.value.message])
           /\ currentView = "quiz" => (questions' = <<>> /\ FormShown')
           /\ currentView = "flashcards" => (cards' = <<>> /\ FormShown') ]_vars

C23_Witness ==
  /\ event.name = "settled"
  /\ event.outcome.kind = "rejected"
  /\ currentView = "chat"
  /\ messages[Len(messages)].content = ERROR_PREFIX \o MSG_KEY_MISSING
  /\ ~isLoading

\* s is a prefix of t.
IsPrefix(s, t) ==
  /\ Len(s) <= Len(t)
  /\ SubSeq(t, 1, Len(s)) = s

\* C24: while ChatInterface stays mounted, every state of the transcript is
\* a prefix of every later one; a completed send has appended one user
\* message and then one model message; the transcript handed to sendMessage
\* is still the transcript as it was read.
C24_TranscriptAppendOnly ==
  /\ [][ currentView' = currentView => IsPrefix(messages, messages') ]_vars
  /\ [][ (event'.name = "settled" /\ currentView = "chat") =>
           /\ Len(messages') = Len(messages) + 1
           /\ messages'[Len(messages')].role = "model"
           /\ messages[Len(messages)] = [role |-> "user", content |-> pending.message]
           /\ pending.history = SubSeq(messages', 1, Len(messages) - 1) ]_vars

C24_Witness ==
  /\ currentView = "chat"
  /\ Len(messages) = 5
  /\ ~isLoading
  /\ messages[3].content = ERROR_PREFIX \o MSG_KEY_MISSING
  /\ messages[5].content = R_PROSE

\* C25: once a request carrying an attachment has been issued, the component
\* holds no pending attachment.
C25_AttachmentDiscarded ==
  [][ (pending = NoRequest /\ pending'.op # "none" /\ pending'.files # <<>>) =>
        (attachedFiles' = <<>> /\ attachedFile' = Null) ]_vars

\* C26: whenever a question becomes the question shown, selectedOption is
\* null.
C26_QuestionAnswerable ==
  [][ (QuestionShown'
       /\ (~QuestionShown \/ currentQuestionIndex' # currentQuestionIndex)) =>
        selectedOption' = Null ]_vars

\* C27: whenever questions is non-empty, 0 <= currentQuestionIndex <
\* questions.length and 0 <= score <= currentQuestionIndex + 1 <=
\* questions.length; a step raises score by at most 1, and only by selecting
\* an option where none was selected; isFinished becomes true only from the
\* last question.
C27_QuizCounters ==
  /\ [](Len(questions) > 0 =>
          /\ 0 <= currentQuestionIndex
          /\ currentQuestionIndex < Len(questions)
          /\ 0 <= score
          /\ score <= currentQuestionIndex + 1)
  /\ [][ /\ score' <= score + 1
         /\ score' > score => (selectedOption = Null /\ selectedOption' # Null)
         /\ (~isFinished /\ isFinished') =>
              (Len(questions) > 0 /\ currentQuestionIndex = Len(questions) - 1) ]_vars

C27_Witness ==
  /\ currentView = "quiz"
  /\ isFinished
  /\ Len(questions) = 2
  /\ currentQuestionIndex = 1
  /\ score = 2

\* The panels of QuizGenerator that are rendered.
PanelsShown ==
  { p \in {"form", "loading", "question", "results"} :
      \/ p = "form" /\ Len(questions) = 0 /\ ~isLoading
      \/ p = "loading" /\ isLoading
      \/ p = "question" /\ Len(questions) > 0 /\ ~isFinished
      \/ p = "results" /\ isFinished }

\* C28: in QuizGenerator at most one of the four panels is shown, and the
\* results view is shown only while questions is non-empty.
C28_PanelsExclusive ==
  currentView = "quiz" =>
    /\ Cardinality(PanelsShown) <= 1
    /\ isFinished => Len(questions) > 0

\* The roles of a transcript alternate, starting with first.
Alternates(h, first) ==
  \A k \in DOMAIN h :
    h[k].role = IF k % 2 = 1 THEN first
                ELSE (IF first = "model" THEN "user" ELSE "model")

UserTurns(h) ==
  Cardinality({ k \in DOMAIN h : h[k].role = "user" })

\* C29: the transcript handleSend reads starts with the greeting, alternates
\* model, user, ..., model and does not hold the message being sent; the
\* history replayed upstream is empty or alternates user, ..., model; with
\* the prompt, each user message of the transcript goes upstream once.
C29_ReplayedHistory ==
  pending.op = "sendMessage" =>
    LET read == pending.history
        replayed == ApiHistory(read)
    IN  /\ Len(read) >= 1
        /\ read[1] = InitialMessages[1]
        /\ Alternates(read, "model")
        /\ read[Len(read)].role = "model"
        /\ read = SubSeq(messages, 1, Len(read))
        /\ messages[Len(read) + 1] = [role |-> "user", content |-> pending.message]
        /\ replayed = SubSeq(read, 2, Len(read))
        /\ Alternates(replayed, "user")
        /\ Len(replayed) > 0 => replayed[Len(replayed)].role = "model"
        /\ UserTurns(replayed) + 1 = UserTurns(SubSeq(messages, 1, Len(read) + 1))

C29_Witness ==
  /\ pending.op = "sendMessage"
  /\ pending.stage = "calling"
  /\ Len(pending.history) = 3
  /\ Len(ApiHistory(pending.history)) = 2

\* C30: a withRetry call whose attempts all fail retryably performs exactly
\* maxRetries - 1 waits, 1000 and 2000 with the defaults, before rejecting.
C30_NoWaitAfterLastAttempt ==
  (pc = "wrSettled" /\ wrOutcome.kind = "threw" /\ attempts = 3
     /\ ClaimedRetryable(lastSettled.value)) =>
    delays = <<1000, 2000>>

====
